---- MODULE Spec2Model ----
(***************************************************************************)
(* State-machine model of arsenalclient/common/http.py: the retry wrapper  *)
(* with_retries around HTTPClient._http_request, the header preparation,   *)
(* the mapping of transport failures, the classification of responses and  *)
(* the extraction of the JSON error envelope.                              *)
(*                                                                         *)
(* One logical request is modelled as the steps                            *)
(*   Construct - HTTPClient.__init__ (lines 104-128)                       *)
(*   Call    - wrapper entry (lines 77-83)                                 *)
(*   Attempt - one invocation of the wrapped function with the wrapper's   *)
(*             except clause (lines 84-96 and 199-271)                     *)
(*   Sleep   - time.sleep and the next loop iteration (lines 97, 83)       *)
(* The transport call and the sleep are the points where the calling       *)
(* thread blocks; SetMaxRetries and SetRetryInterval are another thread    *)
(* assigning the public retry attributes of the client at those points.    *)
(* json_request and raw_request are modelled around the same steps: their  *)
(* statements before the call in Call, their result in facade_result.      *)
(***************************************************************************)
EXTENDS Integers, Sequences, FiniteSets, TLC

VARIABLES client, heap, req, pc, num_attempts, attempt, calls, sleeps,
          last_tr, last_error, result, entry, midloop, ctor_error,
          curl, events, facade_result

vars == <<client, heap, req, pc, num_attempts, attempt, calls, sleeps,
          last_tr, last_error, result, entry, midloop, ctor_error,
          curl, events, facade_result>>

----------------------------------------------------------------------------
(* Bounds of the model *)

\* largest max_retries value passed to the constructor or assigned later
MaxRetriesArg == 2
\* largest retry_interval value passed to the constructor or assigned later
MaxInterval == 1

----------------------------------------------------------------------------
(* Program constants *)

USER_AGENT == "python-arsenalclient"
DEFAULT_MAX_RETRIES == 5
DEFAULT_RETRY_INTERVAL == 2
OCTET_STREAM == "application/octet-stream"
APP_JSON == "application/json"
ENDPOINT == "http://h1:6385"
SENSITIVE_HEADERS == {"X-Auth-Token"}
SUPPORTED_ENDPOINT_SCHEME == {"http", "https"}

NOT_ACCEPTABLE == 406
NO_CONTENT == 204
RESET_CONTENT == 205
BAD_REQUEST == 400
MOVED_PERMANENTLY == 301
FOUND == 302
USE_PROXY == 305
MULTIPLE_CHOICES == 300

_RETRY_EXCEPTIONS == {"Conflict", "ServiceUnavailable", "ConnectionRefused"}

----------------------------------------------------------------------------
(* Python values.  An int-or-None attribute is a record; a Python object   *)
(* read from JSON is a record [t, s, items].                               *)

NoneInt == [none |-> TRUE, v |-> 0]
SomeInt(n) == [none |-> FALSE, v |-> n]

NoneStr == "<None>"
Truthy(s) == s # NoneStr /\ s # ""

PyNone == [t |-> "null", s |-> "", items |-> <<>>]
PyInt == [t |-> "int", s |-> "", items |-> <<>>]
PyList == [t |-> "list", s |-> "", items |-> <<>>]
PyStr(x) == [t |-> "str", s |-> x, items |-> <<>>]
PyDict(f) == [t |-> "dict", s |-> "", items |-> f]
EmptyDict == PyDict(<<>>)

----------------------------------------------------------------------------
(* json.loads, restricted to the texts the model's servers send.           *)

T_EMPTY == ""
T_TEXT == "oops"
T_INT == "5"
T_NULL == "null"
T_LIST == "[1]"
T_STR == "\"abc\""
T_STR_EM == "\"error_message\""
T_OBJ == "{}"
T_FAULT == "{\"faultstring\": \"boom\", \"debuginfo\": null}"
T_FAULT_ONLY == "{\"faultstring\": \"boom\"}"
T_EM_INT == "{\"error_message\": 5}"
T_EM_TEXT == "{\"error_message\": \"oops\"}"
T_EM_INTSTR == "{\"error_message\": \"5\"}"
T_EM_LISTSTR == "{\"error_message\": \"[1]\"}"
T_EM_OBJ == "{\"error_message\": \"{}\"}"
T_EM_FAULT_ONLY == "{\"error_message\": \"{\\\"faultstring\\\": \\\"boom\\\"}\"}"
T_EM_FAULT ==
    "{\"error_message\": \"{\\\"faultstring\\\": \\\"boom\\\", \\\"debuginfo\\\": null}\"}"

\* the texts that are JSON documents, with the value each decodes to
JsonDocs ==
    {T_INT, T_NULL, T_LIST, T_STR, T_STR_EM, T_OBJ, T_FAULT, T_FAULT_ONLY,
     T_EM_INT, T_EM_TEXT, T_EM_INTSTR, T_EM_LISTSTR, T_EM_OBJ,
     T_EM_FAULT_ONLY, T_EM_FAULT}

JsonDecode(text) ==
    CASE text = T_INT -> PyInt
      [] text = T_NULL -> PyNone
      [] text = T_LIST -> PyList
      [] text = T_STR -> PyStr("abc")
      [] text = T_STR_EM -> PyStr("error_message")
      [] text = T_OBJ -> EmptyDict
      [] text = T_FAULT ->
            PyDict([k \in {"faultstring", "debuginfo"} |->
                       IF k = "faultstring" THEN PyStr("boom") ELSE PyNone])
      [] text = T_FAULT_ONLY -> PyDict([k \in {"faultstring"} |-> PyStr("boom")])
      [] text = T_EM_INT -> PyDict([k \in {"error_message"} |-> PyInt])
      [] text = T_EM_TEXT -> PyDict([k \in {"error_message"} |-> PyStr(T_TEXT)])
      [] text = T_EM_INTSTR -> PyDict([k \in {"error_message"} |-> PyStr(T_INT)])
      [] text = T_EM_LISTSTR -> PyDict([k \in {"error_message"} |-> PyStr(T_LIST)])
      [] text = T_EM_OBJ -> PyDict([k \in {"error_message"} |-> PyStr(T_OBJ)])
      [] text = T_EM_FAULT_ONLY ->
            PyDict([k \in {"error_message"} |-> PyStr(T_FAULT_ONLY)])
      [] text = T_EM_FAULT -> PyDict([k \in {"error_message"} |-> PyStr(T_FAULT)])
      [] OTHER -> PyNone

\* json.loads(x): TypeError unless x is a str, ValueError unless the text is
\* a JSON document, else the decoded value
json_loads(x) ==
    IF x.t # "str" THEN [exc |-> "TypeError", val |-> PyNone]
    ELSE IF x.s \notin JsonDocs THEN [exc |-> "ValueError", val |-> PyNone]
    ELSE [exc |-> "", val |-> JsonDecode(x.s)]

\* key in container: dict key, list element, substring of a str; TypeError on
\* an int or None
py_in(key, x) ==
    CASE x.t = "dict" -> [exc |-> "", val |-> key \in DOMAIN x.items]
      [] x.t = "list" -> [exc |-> "", val |-> FALSE]
      [] x.t = "str" -> [exc |-> "", val |-> x.s = key]
      [] OTHER -> [exc |-> "TypeError", val |-> FALSE]

\* container[key] for a str key: a dict's value; TypeError on anything else
py_getitem(x, key) ==
    IF x.t = "dict" /\ key \in DOMAIN x.items
    THEN [exc |-> "", val |-> x.items[key]]
    ELSE [exc |-> "TypeError", val |-> PyNone]

\* x.get(key): a dict's value or None; AttributeError when x is no dict
py_get(x, key) ==
    IF x.t # "dict" THEN [exc |-> "AttributeError", val |-> PyNone]
    ELSE IF key \in DOMAIN x.items THEN [exc |-> "", val |-> x.items[key]]
    ELSE [exc |-> "", val |-> PyNone]

\* the except clause of _extract_error_json
ExtractCatches(e) == e = "ValueError"

\* _extract_error_json(body): [exc, val], exc the exception that escapes
_extract_error_json(body) ==
    LET outer == json_loads(body)
        has == py_in("error_message", outer.val)
        raw == py_getitem(outer.val, "error_message")
        inner == json_loads(raw.val)
        raised ==
            IF outer.exc # "" THEN outer.exc
            ELSE IF has.exc # "" THEN has.exc
            ELSE IF ~has.val THEN ""
            ELSE IF raw.exc # "" THEN raw.exc
            ELSE inner.exc
        value ==
            IF outer.exc = "" /\ has.exc = "" /\ has.val /\ raw.exc = ""
               /\ inner.exc = ""
            THEN inner.val ELSE EmptyDict
    IN  IF raised = "" THEN [exc |-> "", val |-> value]
        ELSE IF ExtractCatches(raised) THEN [exc |-> "", val |-> EmptyDict]
        ELSE [exc |-> raised, val |-> EmptyDict]

----------------------------------------------------------------------------
(* Headers.  A header mapping is a dict object; heap maps the identity of  *)
(* an object to its contents, so that a write through an alias shows.      *)
(*   "caller"  - the mapping the caller passed as headers=                 *)
(*   "default" - the {} literal of kwargs.get('headers', {})               *)
(*   "attempt" - the copy made for one invocation of _http_request         *)

EmptyMap == <<>>

\* d[k] = v in place of d.setdefault(k, v)
setdefault_overwrite(h, k, v) ==
    [x \in DOMAIN h \cup {k} |-> IF x = k THEN v ELSE h[x]]

setdefault(h, k, v) ==
    IF k \in DOMAIN h THEN h
    ELSE [x \in DOMAIN h \cup {k} |-> IF x = k THEN v ELSE h[x]]

\* no copy: the same object under a second name
deepcopy_alias(src) == src

\* copy.deepcopy(obj): the identity of the new object
deepcopy(src) == "attempt"

\* lines 206-209: [heap, ref], the heap after the statements and the identity of
\* the mapping that kwargs['headers'] names
PrepareHeaders(hp, has_headers, token) ==
    LET h0 == [hp EXCEPT !["default"] = EmptyMap]
        src == IF has_headers THEN "caller" ELSE "default"
        dst == deepcopy(src)
        h1 == [h0 EXCEPT ![dst] = h0[src]]
        h2 == [h1 EXCEPT ![dst] = setdefault(@, "User-Agent", USER_AGENT)]
        h3 == IF Truthy(token)
              THEN [h2 EXCEPT ![dst] = setdefault(@, "X-Auth-Token", token)]
              ELSE h2
    IN  [heap |-> h3, ref |-> dst]

\* lines 216-218: the data argument of the transport call
DataOf(body) ==
    IF Truthy(body) THEN [has |-> TRUE, v |-> body]
    ELSE [has |-> FALSE, v |-> NoneStr]

\* hashlib.sha1(value.encode('utf-8')).hexdigest() for the header values of
\* the model
Sha1Hex(value) ==
    CASE value = "secret" -> "e5e9fa1ba31ecd1ae84f75caaa474f3a663f05f4"
      [] value = "caller-token" -> "ff74aea71949a20eb6c5b5c33cfb7830c0b420d4"

\* line 144: membership in a tuple of str, an exact comparison
IsSensitive(name) == name \in SENSITIVE_HEADERS

\* lines 130-150
_process_header(name, value) ==
    IF IsSensitive(name) THEN <<name, "{SHA1}" \o Sha1Hex(value)>>
    ELSE <<name, value>>

\* lines 155-157: the -H part of the curl line, header name -> text shown
log_curl_request(headers) ==
    [k \in DOMAIN headers |-> _process_header(k, headers[k])[2]]

AbsoluteUrls == {"http://h2:6385/v2/foo"}

\* urlparse.urljoin(endpoint_trimmed, url): an absolute url replaces the base
_make_connection_url(url) ==
    IF url \in AbsoluteUrls THEN [base |-> "", path |-> url]
    ELSE [base |-> client.endpoint, path |-> url]

----------------------------------------------------------------------------
(* Errors and responses *)

NoError == [kind |-> "", status |-> 0, msg |-> NoneStr, debuginfo |-> NoneStr,
            attempt |-> 0]

PyError(kind, n) ==
    [kind |-> kind, status |-> 0, msg |-> NoneStr, debuginfo |-> NoneStr,
     attempt |-> n]

StrOf(x) == IF x.t = "str" THEN x.s ELSE NoneStr

\* exc.from_response: the failure class is chosen by the status code
from_response(status, msg, debuginfo, n) ==
    [kind |-> CASE status = 409 -> "Conflict"
                [] status = 503 -> "ServiceUnavailable"
                [] OTHER -> "HTTPError",
     status |-> status, msg |-> StrOf(msg), debuginfo |-> StrOf(debuginfo),
     attempt |-> n]

\* the isinstance(e, ValueError) test dropped
MapTransportError_NoValueCheck(is_value_error, n) == PyError("ConnectionRefused", n)

\* lines 236-245: the failure raised for a requests RequestException
MapTransportError(is_value_error, n) ==
    IF is_value_error THEN PyError("ValidationError", n)
    ELSE PyError("ConnectionRefused", n)

\* line 231: self.negotiate_version; class HTTPClient (lines 102-304) has no
\* base class and defines no such attribute, so the lookup raises
negotiate_version(resp) == [exc |-> "AttributeError", val |-> NoneStr]

\* line 267: resp['location'] on the requests.Response that session.request
\* (line 115: requests.Session) returns; Response defines no __getitem__
ResponseSubscript(resp, key) == [exc |-> "TypeError", val |-> NoneStr]

\* lines 250-256: body_str stays None for an octet-stream response
BodyStr(resp) ==
    IF resp.ctype # OCTET_STREAM THEN PyStr(resp.body) ELSE PyNone

NoResp == [status |-> 0, ctype |-> NoneStr, body |-> "", location |-> NoneStr]

\* lines 258-262: the >= 400 branch
RaiseForError(resp, n) ==
    LET ej == _extract_error_json(BodyStr(resp))
        fs == py_get(ej.val, "faultstring")
        di == py_get(ej.val, "debuginfo")
    IN  IF ej.exc # "" THEN PyError(ej.exc, n)
        ELSE IF fs.exc # "" THEN PyError(fs.exc, n)
        ELSE IF di.exc # "" THEN PyError(di.exc, n)
        ELSE from_response(resp.status, fs.val, di.val, n)

\* lines 221-271: the outcome of one invocation of the wrapped function for the
\* transport outcome tr, [raised, error, resp]
HttpRequest(tr, n) ==
    LET resp == tr.resp
        Raise(e) == [raised |-> TRUE, error |-> e, resp |-> NoResp]
    IN  IF tr.exc THEN Raise(MapTransportError(tr.is_value_error, n))
        ELSE IF resp.status = NOT_ACCEPTABLE
        THEN Raise(PyError(negotiate_version(resp).exc, n))
        ELSE IF resp.status >= BAD_REQUEST THEN Raise(RaiseForError(resp, n))
        ELSE IF resp.status \in {MOVED_PERMANENTLY, FOUND, USE_PROXY}
        THEN Raise(PyError(ResponseSubscript(resp, "location").exc, n))
        ELSE IF resp.status = MULTIPLE_CHOICES
        THEN Raise(from_response(resp.status, PyNone, PyNone, n))
        ELSE [raised |-> FALSE, error |-> NoError, resp |-> resp]

\* the response logged only after it was acted on
Trace_LogLast(tr, n) ==
    <<"log_curl_request", "session.request">>
    \o (IF tr.exc THEN <<"raise">>
        ELSE IF HttpRequest(tr, n).raised THEN <<"raise", "log_http_response">>
        ELSE <<"return", "log_http_response">>)

\* lines 211-271: the order in which one invocation logs, calls the transport
\* and acts on the outcome
Trace(tr, n) ==
    <<"log_curl_request", "session.request">>
    \o (IF tr.exc THEN <<"raise">>
        ELSE IF tr.resp.status = NOT_ACCEPTABLE
        THEN <<"negotiate_version", "raise">>
        ELSE <<"log_http_response">>
             \o (IF HttpRequest(tr, n).raised THEN <<"raise">> ELSE <<"return">>))

----------------------------------------------------------------------------
(* json_request and raw_request *)

\* json.dumps(body) for the bodies of the model
json_dumps(body) ==
    CASE body = "payload" -> "\"payload\""
      [] body = "" -> "\"\""

\* lines 274-279 and 301-303: the keyword arguments as the facade passes them
\* on; the headers mapping is the caller's own when the caller gave one
FacadeKwargs(r) ==
    IF r.facade = "json"
    THEN [r EXCEPT !.has_headers = TRUE,
                   !.headers = setdefault(setdefault(@, "Content-Type", APP_JSON),
                                          "Accept", APP_JSON),
                   !.body = IF @ = NoneStr THEN @ ELSE json_dumps(@)]
    ELSE IF r.facade = "raw"
    THEN [r EXCEPT !.has_headers = TRUE,
                   !.headers = setdefault(@, "Content-Type", OCTET_STREAM)]
    ELSE r

\* only the status decides, a missing Content-Type does not
NoBodyExpected_StatusOnly(resp) == resp.status \in {NO_CONTENT, RESET_CONTENT}

\* lines 284-286
NoBodyExpected(resp) ==
    resp.status \in {NO_CONTENT, RESET_CONTENT} \/ resp.ctype = NoneStr

\* 'application/json' in content_type, a substring test
ContainsAppJson(ctype) == ctype \in {APP_JSON, "application/json; charset=UTF-8"}

NoFacadeResult ==
    [kind |-> "none", body |-> PyNone, decode_attempted |-> FALSE,
     error_logged |-> FALSE, error |-> ""]

\* lines 281-298: what json_request makes of the response it got back
JsonBody(resp) ==
    IF NoBodyExpected(resp)
    THEN [NoFacadeResult EXCEPT !.kind = "returned", !.body = PyList]
    ELSE IF ContainsAppJson(resp.ctype)
    THEN LET d == json_loads(PyStr(resp.body))
         IN  IF d.exc = "ValueError"
             THEN [NoFacadeResult EXCEPT !.kind = "returned",
                                         !.body = PyStr(resp.body),
                                         !.decode_attempted = TRUE,
                                         !.error_logged = TRUE]
             ELSE [NoFacadeResult EXCEPT !.kind = "returned", !.body = d.val,
                                         !.decode_attempted = TRUE]
    ELSE [NoFacadeResult EXCEPT !.kind = "returned"]

\* what the facade hands to its caller once the wrapped _http_request is over:
\* an exception passes through, json_request unpacks the returned pair (line
\* 281, a TypeError on None), raw_request returns it as it is (line 304)
FacadeResult(facade, res) ==
    IF res.kind = "none" THEN NoFacadeResult
    ELSE IF res.kind = "raised"
    THEN [NoFacadeResult EXCEPT !.kind = "raised", !.error = res.error.kind]
    ELSE IF res.kind = "returned_none"
    THEN IF facade = "json"
         THEN [NoFacadeResult EXCEPT !.kind = "raised", !.error = "TypeError"]
         ELSE [NoFacadeResult EXCEPT !.kind = "returned_none"]
    ELSE IF facade = "json" THEN JsonBody(res.resp)
    ELSE [NoFacadeResult EXCEPT !.kind = "returned", !.body = BodyStr(res.resp)]

----------------------------------------------------------------------------
(* Inputs *)

\* the endpoints a client is constructed with
Endpoints == {ENDPOINT, "ftp://h1:6385", "h1:6385/v1"}

\* urlparse.urlparse(endpoint).scheme
Scheme(endpoint) ==
    CASE endpoint = ENDPOINT -> "http"
      [] endpoint = "ftp://h1:6385" -> "ftp"
      [] OTHER -> ""

\* the scheme test dropped
SchemeSupported_Any(endpoint) == TRUE

\* line 118
SchemeSupported(endpoint) == Scheme(endpoint) \in SUPPORTED_ENDPOINT_SCHEME

\* max_retries and retry_interval as passed to HTTPClient(...)
MaxRetriesArgs == {NoneInt} \cup {SomeInt(n) : n \in -1..MaxRetriesArg}
IntervalArgs == {NoneInt} \cup {SomeInt(n) : n \in 0..MaxInterval}
Tokens == {NoneStr, "", "secret"}

\* the logical requests of the model: the method of the client that is called
\* (_http_request, json_request or raw_request), url, method, body and the
\* caller's headers argument (absent, or a mapping)
Req(f, u, m, b, hh, hm) ==
    [facade |-> f, url |-> u, method |-> m, body |-> b, has_headers |-> hh,
     headers |-> hm]

NoReq == Req("http", "/v1/nodes", "GET", NoneStr, FALSE, EmptyMap)

Requests ==
    {Req("http", "/v1/nodes", "GET", NoneStr, FALSE, EmptyMap),
     Req("http", "http://h2:6385/v2/foo", "POST", "payload", TRUE,
         [k \in {"User-Agent", "X-Auth-Token"} |->
             IF k = "User-Agent" THEN "caller-agent" ELSE "caller-token"]),
     Req("http", "/v1/nodes", "POST", "", TRUE,
         [k \in {"x-auth-token"} |-> "caller-token"]),
     Req("json", "/v1/nodes", "GET", NoneStr, FALSE, EmptyMap),
     Req("json", "/v1/nodes", "POST", "payload", TRUE,
         [k \in {"Content-Type"} |-> "text/plain"]),
     Req("raw", "/v1/nodes", "POST", "payload", FALSE, EmptyMap),
     Req("raw", "/v1/nodes", "PUT", "payload", TRUE,
         [k \in {"Content-Type"} |-> "text/plain"])}

ErrorTexts ==
    {T_EMPTY, T_TEXT, T_INT, T_NULL, T_LIST, T_STR, T_STR_EM, T_OBJ, T_FAULT,
     T_EM_INT, T_EM_TEXT, T_EM_INTSTR, T_EM_LISTSTR, T_EM_OBJ,
     T_EM_FAULT_ONLY, T_EM_FAULT}

Resp(st, ct, b, loc) == [status |-> st, ctype |-> ct, body |-> b, location |-> loc]

Responses ==
    {Resp(200, APP_JSON, T_OBJ, NoneStr), Resp(200, OCTET_STREAM, "bytes", NoneStr),
     Resp(MULTIPLE_CHOICES, APP_JSON, "", NoneStr),
     Resp(NOT_ACCEPTABLE, APP_JSON, T_EMPTY, NoneStr),
     Resp(MOVED_PERMANENTLY, APP_JSON, "", NoneStr)}
    \cup {Resp(st, APP_JSON, "", "http://h2:6385/v2/foo") :
             st \in {MOVED_PERMANENTLY, FOUND, USE_PROXY}}
    \cup {Resp(409, APP_JSON, b, NoneStr) : b \in ErrorTexts}
    \cup {Resp(st, APP_JSON, b, NoneStr) :
             st \in {404, 503}, b \in {T_EMPTY, T_INT, T_EM_FAULT}}
    \cup {Resp(409, OCTET_STREAM, "bytes", NoneStr)}
    \cup {Resp(NO_CONTENT, APP_JSON, T_OBJ, NoneStr),
          Resp(RESET_CONTENT, NoneStr, T_TEXT, NoneStr),
          Resp(200, NoneStr, T_OBJ, NoneStr),
          Resp(200, APP_JSON, T_TEXT, NoneStr),
          Resp(200, "application/json; charset=UTF-8", T_FAULT_ONLY, NoneStr),
          Resp(200, "text/plain", T_OBJ, NoneStr)}

\* what session.request does: raises a RequestException (some of which are
\* also ValueError) or returns a response
TransportOutcomes ==
    {[exc |-> TRUE, is_value_error |-> b, resp |-> NoResp] : b \in BOOLEAN}
    \cup {[exc |-> FALSE, is_value_error |-> FALSE, resp |-> r] : r \in Responses}

\* the part of a transport outcome that the history variable last_tr keeps
Summary(tr) ==
    [exc |-> tr.exc, is_value_error |-> tr.is_value_error,
     status |-> tr.resp.status, location |-> tr.resp.location,
     octet |-> tr.resp.ctype = OCTET_STREAM]

NoTr == Summary([exc |-> FALSE, is_value_error |-> FALSE, resp |-> NoResp])

NoEntry ==
    [max_retries |-> 0, retry_interval |-> 0, headers |-> EmptyMap,
     supplied |-> EmptyMap]

NoResult == [kind |-> "none", resp |-> NoResp, error |-> NoError]
Returned(r) == [kind |-> "returned", resp |-> r, error |-> NoError]
ReturnedNone == [kind |-> "returned_none", resp |-> NoResp, error |-> NoError]
Raised(e) == [kind |-> "raised", resp |-> NoResp, error |-> e]

----------------------------------------------------------------------------
(* The retry wrapper *)

\* lines 77-80: a None attribute is replaced by its default, on the client
WithDefaults(c) ==
    [c EXCEPT !.conflict_max_retries =
                  IF @.none THEN SomeInt(DEFAULT_MAX_RETRIES) ELSE @,
              !.conflict_retry_interval =
                  IF @.none THEN SomeInt(DEFAULT_RETRY_INTERVAL) ELSE @]

\* one attempt too many
NumAttempts_OneMore(c) == c.conflict_max_retries.v + 2

\* line 82
NumAttempts(c) == c.conflict_max_retries.v + 1

\* except Exception in place of except _RETRY_EXCEPTIONS
IsRetryable_Any(e) == TRUE

\* line 86
IsRetryable(e) == e.kind \in _RETRY_EXCEPTIONS

\* the last attempt taken to be the one before the last
IsLastAttempt_Early(n, total, c) == n = total - 1

\* the total read from the client again at each comparison
IsLastAttempt_Fresh(n, total, c) == n = c.conflict_max_retries.v + 1

\* line 92: the comparison is with the local computed at line 82
IsLastAttempt(n, total, c) == n = total

\* a delay that grows with the attempt number
SleepDuration_Backoff(c, n) == c.conflict_retry_interval.v * n

\* line 97: the attribute is read when the sleep starts
SleepDuration(c, n) == c.conflict_retry_interval.v

\* line 94: a bare raise re-raises the exception being handled
Reraise(e) == e

\* the arguments of HTTPClient(endpoint, token=, max_retries=, retry_interval=),
\* before the constructor runs
Init ==
    /\ client \in [conflict_max_retries : MaxRetriesArgs,
                   conflict_retry_interval : IntervalArgs,
                   auth_token : Tokens,
                   endpoint : Endpoints]
    /\ ctor_error = ""
    /\ heap = [o \in {"caller", "default", "attempt"} |-> EmptyMap]
    /\ req = NoReq
    /\ pc = "new"
    /\ num_attempts = 0
    /\ attempt = 0
    /\ calls = <<>>
    /\ sleeps = <<>>
    /\ last_tr = NoTr
    /\ last_error = NoError
    /\ result = NoResult
    /\ entry = NoEntry
    /\ midloop = FALSE
    /\ curl = EmptyMap
    /\ events = <<>>
    /\ facade_result = NoFacadeResult

\* HTTPClient.__init__, lines 104-128: the attributes are set from the
\* arguments, then an endpoint of an unsupported scheme raises and no client
\* object comes to exist
Construct ==
    /\ pc = "new"
    /\ IF SchemeSupported(client.endpoint)
       THEN pc' = "idle" /\ UNCHANGED ctor_error
       ELSE pc' = "failed" /\ ctor_error' = "EndpointException"
    /\ UNCHANGED <<client, heap, req, num_attempts, attempt, calls, sleeps,
                   last_tr, last_error, result, entry, midloop, curl, events,
                   facade_result>>

\* a call of _http_request, json_request or raw_request: the facade's
\* statements before it calls _http_request (lines 274-279, 301-303), then
\* wrapper(self, url, method, **kwargs) up to the first iteration (lines 76-83).
\* req holds the keyword arguments as _http_request gets them, and
\* heap["caller"] the mapping they name as headers.
Call(r) ==
    /\ pc = "idle"
    /\ client' = WithDefaults(client)
    /\ req' = FacadeKwargs(r)
    /\ heap' = [o \in {"caller", "default", "attempt"} |->
                   IF o = "caller" THEN req'.headers ELSE EmptyMap]
    /\ entry' = [max_retries |-> client'.conflict_max_retries.v,
                 retry_interval |-> client'.conflict_retry_interval.v,
                 headers |-> req'.headers,
                 supplied |-> r.headers]
    /\ num_attempts' = NumAttempts(client')
    /\ attempt' = 1
    /\ calls' = <<>>
    /\ sleeps' = <<>>
    /\ last_tr' = NoTr
    /\ last_error' = NoError
    /\ midloop' = FALSE
    /\ IF num_attempts' >= 1
       THEN pc' = "attempt" /\ result' = NoResult
       ELSE pc' = "done" /\ result' = ReturnedNone
    /\ curl' = EmptyMap
    /\ events' = <<>>
    /\ facade_result' = FacadeResult(req'.facade, result')
    /\ UNCHANGED ctor_error

\* one iteration of the loop: func(self, url, method, **kwargs) with the
\* transport outcome tr, and the except clause up to the sleep (lines 84-96)
Attempt(tr) ==
    /\ pc = "attempt"
    /\ LET ph == PrepareHeaders(heap, req.has_headers, client.auth_token)
           sent == [method |-> req.method,
                    url |-> _make_connection_url(req.url),
                    headers |-> ph.heap[ph.ref],
                    data |-> DataOf(req.body)]
           out == HttpRequest(tr, attempt)
       IN  /\ heap' = ph.heap
           /\ calls' = Append(calls, sent)
           /\ curl' = log_curl_request(sent.headers)
           /\ events' = Trace(tr, attempt)
           /\ last_tr' = Summary(tr)
           /\ IF ~out.raised
              THEN /\ result' = Returned(out.resp)
                   /\ pc' = "done"
                   /\ UNCHANGED last_error
              ELSE /\ last_error' = out.error
                   /\ IF IsRetryable(out.error)
                         /\ ~IsLastAttempt(attempt, num_attempts, client)
                      THEN pc' = "sleep" /\ UNCHANGED result
                      ELSE pc' = "done" /\ result' = Raised(Reraise(out.error))
    /\ facade_result' = FacadeResult(req.facade, result')
    /\ UNCHANGED <<client, req, num_attempts, attempt, sleeps, entry, midloop,
                   ctor_error>>

\* time.sleep(self.conflict_retry_interval) and the step of the for loop
\* (lines 97, 83); a loop that runs out returns None
Sleep ==
    /\ pc = "sleep"
    /\ sleeps' = Append(sleeps, SleepDuration(client, attempt))
    /\ attempt' = attempt + 1
    /\ IF attempt' <= num_attempts
       THEN pc' = "attempt" /\ UNCHANGED result
       ELSE pc' = "done" /\ result' = ReturnedNone
    /\ facade_result' = FacadeResult(req.facade, result')
    /\ UNCHANGED <<client, heap, req, num_attempts, calls, last_tr, last_error,
                   entry, midloop, ctor_error, curl, events>>

\* the result or the exception reaches the caller and the wrapper's frame is
\* gone
Return ==
    /\ pc = "done"
    /\ pc' = "idle"
    /\ req' = NoReq
    /\ heap' = [o \in {"caller", "default", "attempt"} |-> EmptyMap]
    /\ num_attempts' = 0
    /\ attempt' = 0
    /\ calls' = <<>>
    /\ sleeps' = <<>>
    /\ last_tr' = NoTr
    /\ last_error' = NoError
    /\ result' = NoResult
    /\ entry' = NoEntry
    /\ midloop' = FALSE
    /\ curl' = EmptyMap
    /\ events' = <<>>
    /\ facade_result' = NoFacadeResult
    /\ UNCHANGED <<client, ctor_error>>

\* Another thread may assign the public retry attributes of the client between
\* two logical requests, or while one is blocked in the transport or in the
\* sleep; the model lets one assignment happen inside each retry loop.
MayAssign == pc = "idle" \/ (pc \in {"attempt", "sleep"} /\ ~midloop)

\* client.conflict_max_retries = m
SetMaxRetries(m) ==
    /\ MayAssign
    /\ client' = [client EXCEPT !.conflict_max_retries = SomeInt(m)]
    /\ midloop' = (pc # "idle")
    /\ UNCHANGED <<heap, req, pc, num_attempts, attempt, calls, sleeps, last_tr,
                   last_error, result, entry, ctor_error, curl, events,
                   facade_result>>

\* client.conflict_retry_interval = i
SetRetryInterval(i) ==
    /\ MayAssign
    /\ client' = [client EXCEPT !.conflict_retry_interval = SomeInt(i)]
    /\ midloop' = (pc # "idle")
    /\ UNCHANGED <<heap, req, pc, num_attempts, attempt, calls, sleeps, last_tr,
                   last_error, result, entry, ctor_error, curl, events,
                   facade_result>>

Next ==
    \/ Construct
    \/ \E r \in Requests : Call(r)
    \/ \E tr \in TransportOutcomes : Attempt(tr)
    \/ Sleep
    \/ Return
    \/ \E m \in 0..MaxRetriesArg : SetMaxRetries(m)
    \/ \E i \in 0..MaxInterval : SetRetryInterval(i)

Spec == Init /\ [][Next]_vars

----------------------------------------------------------------------------
(* Properties *)

Done == pc = "done"
Exhausted == Done /\ result.kind = "raised" /\ result.error.kind \in _RETRY_EXCEPTIONS
LastIsResponse == Len(calls) > 0 /\ ~last_tr.exc

\* C1: a logical request whose attempts all fail with a retryable kind makes
\* exactly max_retries + 1 transport attempts (max_retries as configured when the
\* request entered the wrapper, >= 0), never sleeps after the last of them, and
\* raises to the caller the unchanged error of the last attempt.
C1_RetryExhaustion ==
    /\ Exhausted =>
          /\ entry.max_retries >= 0
          /\ Len(calls) = entry.max_retries + 1
          /\ result.error = last_error
          /\ last_error.attempt = Len(calls)
    /\ pc = "sleep" => Len(calls) < entry.max_retries + 1
    /\ Len(calls) <= (IF entry.max_retries >= 0 THEN entry.max_retries + 1 ELSE 0)

C1_Witness ==
    /\ Exhausted
    /\ entry.max_retries = 2
    /\ Len(calls) = 3
    /\ result.error.kind = "Conflict"

\* C2: a failure of a kind outside {Conflict, ServiceUnavailable,
\* ConnectionRefused} ends the logical request at once with that failure: the
\* attempt that raised it is the last transport attempt, no sleep follows it, and
\* every attempt before it failed with a retryable kind, so a request whose
\* first attempt fails this way makes exactly one attempt whatever max_retries is.
C2_NonRetryablePropagates ==
    /\ (Done /\ result.kind = "raised" /\ result.error.kind \notin _RETRY_EXCEPTIONS) =>
          /\ result.error = last_error
          /\ last_error.attempt = Len(calls)
          /\ Len(sleeps) = Len(calls) - 1
    /\ pc = "sleep" => last_error.kind \in _RETRY_EXCEPTIONS
    /\ (Len(calls) > 0 /\ last_error.attempt = Len(calls)
          /\ last_error.kind \notin _RETRY_EXCEPTIONS) => Done

C2_Witness ==
    /\ Done
    /\ result.kind = "raised"
    /\ result.error.kind = "HTTPError"
    /\ result.error.status = MULTIPLE_CHOICES
    /\ entry.max_retries = 2
    /\ Len(calls) = 1

\* C3: a 301, 302 or 305 response that carries a Location header is followed by
\* another transport call (to the Location value, same method and body), so a
\* logical request never ends on such a response.
C3_RedirectFollowed ==
    ~(/\ Done
      /\ LastIsResponse
      /\ last_tr.status \in {MOVED_PERMANENTLY, FOUND, USE_PROXY}
      /\ last_tr.location # NoneStr)

\* C4: a logical request whose first transport response is 406 is re-issued with
\* the negotiated version, so no error reaches the caller from that first
\* response.
C4_RenegotiationInvisible ==
    (Done /\ Len(calls) = 1 /\ LastIsResponse /\ last_tr.status = NOT_ACCEPTABLE)
        => result.kind # "raised"

\* C5: for a response with status >= 400 (other than the 406 of version
\* negotiation) the attempt ends in the typed failure chosen by the status code
\* alone, whatever the body: 409 gives Conflict, 503 gives ServiceUnavailable,
\* any other status the generic HTTP failure.
C5_StatusDrivesKind ==
    (LastIsResponse /\ last_tr.status >= BAD_REQUEST /\ last_tr.status # NOT_ACCEPTABLE)
        => /\ last_error.attempt = Len(calls)
           /\ last_error.status = last_tr.status
           /\ last_error.kind = (CASE last_tr.status = 409 -> "Conflict"
                                   [] last_tr.status = 503 -> "ServiceUnavailable"
                                   [] OTHER -> "HTTPError")

\* C6: a transport failure (a RequestException of the requests library) becomes
\* exactly one of two failures: ValidationError when it is also a ValueError,
\* and then the request ends at once; ConnectionRefused otherwise, and then the
\* request goes on to another attempt unless it was the last one allowed.
C6_TransportFailureMapping ==
    (Len(calls) > 0 /\ last_tr.exc) =>
        /\ last_error.attempt = Len(calls)
        /\ last_error.kind =
              (IF last_tr.is_value_error THEN "ValidationError" ELSE "ConnectionRefused")
        /\ last_tr.is_value_error => (Done /\ result = Raised(last_error))
        /\ ~last_tr.is_value_error =>
              IF Len(calls) < entry.max_retries + 1
              THEN pc \in {"sleep", "attempt"} /\ result.kind = "none"
              ELSE Done /\ result = Raised(last_error)

C6_Witness ==
    /\ Len(calls) = 2
    /\ last_tr.exc
    /\ ~last_tr.is_value_error
    /\ pc = "sleep"

\* C7: at every point of a logical request the mapping the caller passed as
\* headers holds exactly the entries it held when the request was issued.
C7_CallerHeadersUntouched == heap["caller"] = entry.headers

C7_Witness ==
    /\ Done
    /\ req.has_headers
    /\ Len(calls) >= 2
    /\ "User-Agent" \notin DOMAIN heap["caller"]
    /\ "User-Agent" \in DOMAIN calls[2].headers
    /\ "X-Auth-Token" \in DOMAIN calls[2].headers

\* C8: the headers of every transport call carry User-Agent, carry X-Auth-Token
\* when the client has a token, and carry every header the caller supplied with
\* the caller's value; the client's own values appear only for the names the
\* caller left out.
C8_DefaultHeadersNeverOverwrite ==
    \A i \in 1..Len(calls) :
        LET h == calls[i].headers
            supplied == IF req.has_headers THEN entry.headers ELSE EmptyMap
        IN  /\ "User-Agent" \in DOMAIN h
            /\ client.auth_token \notin {NoneStr, ""} => "X-Auth-Token" \in DOMAIN h
            /\ \A k \in DOMAIN supplied : k \in DOMAIN h /\ h[k] = supplied[k]
            /\ "User-Agent" \notin DOMAIN supplied => h["User-Agent"] = USER_AGENT
            /\ ("X-Auth-Token" \in DOMAIN h /\ "X-Auth-Token" \notin DOMAIN supplied)
                  => h["X-Auth-Token"] = client.auth_token

C8_Witness ==
    /\ Len(calls) >= 1
    /\ client.auth_token = "secret"
    /\ req.has_headers
    /\ "X-Auth-Token" \in DOMAIN entry.headers
    /\ calls[1].headers["X-Auth-Token"] = "caller-token"
    /\ calls[1].headers["User-Agent"] = "caller-agent"

\* C9: the wrapper sleeps exactly once between two consecutive attempts and at
\* no other time: not before the first attempt, not after a success, not after
\* a non-retryable failure and not after the last failed attempt, so a request
\* that exhausts its retries has slept max_retries times; with the client's
\* interval left alone every sleep lasts that same interval.
C9_SleepsBetweenAttempts ==
    /\ pc = "attempt" => Len(sleeps) = Len(calls) /\ attempt = Len(calls) + 1
    /\ pc = "sleep" => Len(sleeps) = Len(calls) - 1 /\ attempt = Len(calls)
    /\ (Done /\ Len(calls) > 0) => Len(sleeps) = Len(calls) - 1
    /\ Len(calls) = 0 => sleeps = <<>>
    /\ Exhausted => Len(sleeps) = entry.max_retries
    /\ ~midloop => \A i \in 1..Len(sleeps) : sleeps[i] = entry.retry_interval

C9_Witness ==
    /\ Exhausted
    /\ ~midloop
    /\ entry.retry_interval = 1
    /\ sleeps = <<1, 1>>
    /\ Len(calls) = 3

\* C10 as stated: both the number of attempts and every sleep duration of a
\* logical request are the values the client held when the request entered the
\* wrapper, whatever is assigned to the client while the loop runs.
C10_PolicyFixedAtEntry ==
    /\ Exhausted => Len(calls) = entry.max_retries + 1
    /\ \A i \in 1..Len(sleeps) : sleeps[i] = entry.retry_interval

\* C10 as amended: the number of attempts is fixed from the max_retries the
\* client holds when the request enters the wrapper (None read as 5), so an
\* assignment between two calls takes effect on the next call and one made while
\* the loop runs does not change that loop's attempts; the interval is read from
\* the client each time the loop sleeps, so each sleep lasts the interval the
\* client holds when that sleep starts.
C10_AttemptsFixedIntervalFresh ==
    /\ [](Exhausted => Len(calls) = entry.max_retries + 1)
    /\ [](pc \in {"attempt", "sleep"} => num_attempts = entry.max_retries + 1)
    /\ [][(pc = "idle" /\ pc' # "idle") =>
             num_attempts' = 1 + (IF client.conflict_max_retries.none
                                  THEN DEFAULT_MAX_RETRIES
                                  ELSE client.conflict_max_retries.v)]_vars
    /\ [][Len(sleeps') = Len(sleeps) + 1 =>
             sleeps'[Len(sleeps')] = client.conflict_retry_interval.v]_vars

C10_Witness ==
    /\ Exhausted
    /\ midloop
    /\ entry.max_retries = 2
    /\ client.conflict_max_retries.v = 0
    /\ Len(calls) = 3

\* C11: a logical request that ends on a 406 response (the refusal that follows
\* the one round of renegotiation) ends in the typed failure of a >= 400
\* status, raised to the caller.
C11_RefusalIsTypedFailure ==
    (Done /\ LastIsResponse /\ last_tr.status = NOT_ACCEPTABLE) =>
        /\ result.kind = "raised"
        /\ result.error.kind \in {"Conflict", "ServiceUnavailable", "HTTPError"}
        /\ result.error.status = NOT_ACCEPTABLE

C17_EndsWithResponseOrFailure ==
    Done => /\ result.kind \in {"returned", "raised"}
            /\ Len(calls) <= entry.max_retries + 1

\* C19: a retry attempt starts from the headers the caller supplied: when a later
\* attempt of the loop starts, the caller's mapping holds what it held at the
\* call, every attempt so far has sent the same headers, and no sent header
\* other than User-Agent and X-Auth-Token is one the caller did not supply (in
\* particular no negotiated-version header).
C19_RetryStartsFromCallerHeaders ==
    /\ (pc = "attempt" /\ Len(calls) >= 1 /\ req.has_headers) =>
          heap["caller"] = entry.headers
    /\ \A i \in 1..Len(calls) :
          /\ calls[i].headers = calls[1].headers
          /\ DOMAIN calls[i].headers \subseteq
                DOMAIN entry.headers \cup {"User-Agent", "X-Auth-Token"}

C19_Witness ==
    /\ pc = "attempt"
    /\ Len(calls) = 2
    /\ req.has_headers
    /\ "User-Agent" \notin DOMAIN heap["caller"]
    /\ "User-Agent" \in DOMAIN calls[1].headers
    /\ calls[2].headers = calls[1].headers

\* C20: whatever retry policy the client was constructed with, a logical request
\* runs under max_retries >= 0 and retry_interval >= 0, makes at least one
\* transport call and ends by returning a response or raising a failure.
C20_PolicyNonNegative ==
    /\ pc \in {"attempt", "sleep", "done"} =>
          entry.max_retries >= 0 /\ entry.retry_interval >= 0
    /\ Done => Len(calls) >= 1 /\ result.kind \in {"returned", "raised"}

\* C14: a client whose endpoint scheme is neither http nor https never comes to
\* exist: its construction ends in EndpointException, it makes no transport
\* call and no request, and the failed construction is not tried again.
C14_UnsupportedSchemeFails ==
    /\ [](Scheme(client.endpoint) \notin {"http", "https"} =>
             /\ pc \in {"new", "failed"}
             /\ calls = <<>>
             /\ result.kind = "none"
             /\ (pc = "failed" => ctor_error = "EndpointException"))
    /\ [](ctor_error # "" => pc = "failed")
    /\ [][pc = "failed" => pc' = "failed"]_vars

C14_Witness ==
    /\ pc = "failed"
    /\ Scheme(client.endpoint) = "ftp"
    /\ ctor_error = "EndpointException"
    /\ calls = <<>>

\* C12: no pre-request log shows the raw value of a header that carries the
\* auth token, under any spelling of the header name: such a header is shown
\* as the marker {SHA1} followed by the digest of its value, and every other
\* header is shown unchanged.
C12_NoRawCredentialLogged ==
    \A k \in DOMAIN curl :
        LET sent == calls[Len(calls)].headers[k]
        IN  IF k \in {"X-Auth-Token", "x-auth-token"}
            THEN /\ curl[k] # sent
                 /\ curl[k] \in {"{SHA1}e5e9fa1ba31ecd1ae84f75caaa474f3a663f05f4",
                                 "{SHA1}ff74aea71949a20eb6c5b5c33cfb7830c0b420d4"}
            ELSE curl[k] = sent

\* C13: a json_request that got a response back returns to its caller: an empty
\* list, with no JSON decode attempted, when the status is 204 or 205 or the
\* response has no Content-Type; the undecoded text, with the failure logged and
\* not raised, when a JSON content type carries a body that is not JSON; a null
\* body for any other content type.
C13_JsonResultByContentType ==
    (Done /\ req.facade = "json" /\ result.kind = "returned") =>
        LET r == result.resp
            f == facade_result
            empty == r.status \in {204, 205} \/ r.ctype = NoneStr
            is_json == r.ctype \in {"application/json",
                                    "application/json; charset=UTF-8"}
        IN  /\ f.kind = "returned"
            /\ f.error = ""
            /\ empty => f.body.t = "list" /\ ~f.decode_attempted /\ ~f.error_logged
            /\ (~empty /\ is_json /\ r.body \in {"", "oops"}) =>
                   f.decode_attempted /\ f.error_logged /\ f.body.t = "str"
            /\ (~empty /\ ~is_json) => f.body.t = "null" /\ ~f.decode_attempted

C13_Witness ==
    /\ Done
    /\ req.facade = "json"
    /\ result.kind = "returned"
    /\ result.resp.status = 200
    /\ result.resp.ctype = NoneStr
    /\ facade_result.kind = "returned"
    /\ facade_result.body.t = "list"

\* C15 as stated: every transport call of json_request carries Content-Type and
\* Accept application/json, every transport call of raw_request carries
\* Content-Type application/octet-stream, whatever the caller supplied.
C15_FacadeHeadersForced ==
    \A i \in 1..Len(calls) :
        /\ req.facade = "json" =>
               /\ calls[i].headers["Content-Type"] = "application/json"
               /\ calls[i].headers["Accept"] = "application/json"
        /\ req.facade = "raw" =>
               calls[i].headers["Content-Type"] = "application/octet-stream"

\* C15 amended: every transport call of json_request carries Content-Type and
\* Accept, every transport call of raw_request carries Content-Type; each has
\* the value the caller supplied for it, and the facade's value
\* (application/json, application/octet-stream) when the caller supplied none.
C15_FacadeHeadersDefaulted ==
    \A i \in 1..Len(calls) :
        LET Carries(k, v) ==
                /\ k \in DOMAIN calls[i].headers
                /\ calls[i].headers[k] =
                       IF k \in DOMAIN entry.supplied THEN entry.supplied[k] ELSE v
        IN  /\ req.facade = "json" =>
                   /\ Carries("Content-Type", "application/json")
                   /\ Carries("Accept", "application/json")
            /\ req.facade = "raw" =>
                   Carries("Content-Type", "application/octet-stream")

C15_Witness ==
    /\ req.facade = "json"
    /\ Len(calls) = 2
    /\ "Content-Type" \in DOMAIN entry.supplied
    /\ calls[2].headers["Content-Type"] = "text/plain"
    /\ calls[2].headers["Accept"] = "application/json"

====
